---- MODULE Spec2Model ----
(***************************************************************************)
(* PublicBuffer (tss-esapi/src/structures/buffers/public.rs): a size       *)
(* bounded, zeroize-on-drop byte buffer holding the packed encoding of a   *)
(* TPMT_PUBLIC, with its conversions from/to Vec<u8>, &[u8], TPM2B_PUBLIC  *)
(* and Public and its Marshall / UnMarshall implementations.               *)
(*                                                                         *)
(* The heap holds the Vec<u8> storage of the live PublicBuffer instances;  *)
(* `bufs` are the holders (variables of the caller) that own an instance.  *)
(* Every action is one call of one function of the file, done to the end,  *)
(* drop glue of the values that go out of scope in it included.  `last`    *)
(* records that call: its inputs, its result, the collaborator and foreign *)
(* calls it made in order, and every storage block it released.  `kin`     *)
(* holds the pairs of holders of which one was cloned from the other.      *)
(*                                                                         *)
(* The layout of the public area is scaled down: a selector byte, a length *)
(* byte and up to MaxUnique content bytes when packed; the same fields     *)
(* with one byte of padding and a full MaxUnique array in the fixed        *)
(* (unpacked) layout TPMT_PUBLIC.                                          *)
(***************************************************************************)
EXTENDS Integers, Sequences, FiniteSets, TLC

VARIABLES env, bufs, heap, kin, last

vars == <<env, bufs, heap, kin, last>>

\* ------------------------------------------------------------- bounds
\* Longest `unique` field of a public area (bytes).
MaxUnique == 2
\* Holders that can own a PublicBuffer at the same time.
MaxLive == 2

\* ---------------------------------------------------------- constants
\* Number of values of the u16 that `as u16` casts to.
U16 == 65536
\* size_of::<TPMT_PUBLIC>(): selector, padding, length, unique[MaxUnique].
MAX_SIZE == 3 + MaxUnique
\* size_of::<TPM2B_PUBLIC>(): the u16 size field and the TPMT_PUBLIC.
BUFFER_SIZE == 2 + MAX_SIZE
\* One storage block per holder, and one for the clone inside marshall.
MaxBlk == MaxLive + 1

Zeros(n) == [i \in 1..n |-> 0]
Fill(n, b) == [i \in 1..n |-> b]
Ramp(n, v) == [i \in 1..n |-> v + i - 1]
Take(s, n) == SubSeq(s, 1, IF n < Len(s) THEN n ELSE Len(s))
AllZero(s) == \A i \in 1..Len(s) : s[i] = 0

\* ------------------------------------------------------------- errors
NoErr == [kind |-> "none", rc |-> "none"]
WrongParamSize == [kind |-> "WrongParamSize", rc |-> "none"]
InvalidParam == [kind |-> "InvalidParam", rc |-> "none"]
\* Error::TssError carrying the return code of the foreign call.
TssError(rc) == [kind |-> "TssError", rc |-> rc]

\* ReturnCode::ensure_success: Ok for TSS2_RC_SUCCESS, else the error that
\* carries the code.
ensure_success(rc) == IF rc = "TSS2_RC_SUCCESS" THEN NoErr ELSE TssError(rc)

\* What a foreign call can be made to return by its environment: under
\* "nominal" the library answers by its contract alone; under "faulty" it may
\* also refuse a call it could have served.
Faults(e) ==
  IF e = "faulty" THEN {"TSS2_RC_SUCCESS", "TSS2_BASE_RC_GENERAL_FAILURE"}
  ELSE {"TSS2_RC_SUCCESS"}
\* The answers to the two foreign calls of one function: the second is made
\* only when the first succeeded.
FaultPairs(e) ==
  {fg \in Faults(e) \X Faults(e) : fg[1] = "TSS2_RC_SUCCESS" \/ fg[2] = "TSS2_RC_SUCCESS"}

\* -------------------------------------------- the structured value Public
ValidTypes == {1, 2}
DefPublic == [type |-> 0, unique |-> <<>>]
DefArea == [type |-> 0, usize |-> 0, ubuf |-> Zeros(MaxUnique)]
DefTss == [size |-> 0, publicArea |-> DefArea]

\* Packed encoding of the fields of a public area.
Packed(type, unique) == <<type, Len(unique)>> \o unique

\* Public::marshall: packs into a scratch of size_of::<TPMT_PUBLIC>() bytes and
\* returns what was written; an encoding that does not fit the scratch is an
\* error of the foreign call.
PublicMarshall(p, g) ==
  IF g # "TSS2_RC_SUCCESS" THEN [ok |-> FALSE, err |-> TssError(g), val |-> <<>>]
  ELSE IF Len(Packed(p.type, p.unique)) > MAX_SIZE
    THEN [ok |-> FALSE, err |-> TssError("TSS2_MU_RC_INSUFFICIENT_BUFFER"), val |-> <<>>]
  ELSE [ok |-> TRUE, err |-> NoErr, val |-> Packed(p.type, p.unique)]

\* Public::unmarshall: parses a packed public area from the front of `bytes`;
\* bytes after it are not read.
PublicUnmarshall(bytes, g) ==
  IF g # "TSS2_RC_SUCCESS" THEN [ok |-> FALSE, err |-> TssError(g), val |-> DefPublic]
  ELSE IF Len(bytes) < 2
    THEN [ok |-> FALSE, err |-> TssError("TSS2_MU_RC_INSUFFICIENT_BUFFER"), val |-> DefPublic]
  ELSE IF bytes[1] \notin ValidTypes
    THEN [ok |-> FALSE, err |-> TssError("TSS2_MU_RC_BAD_VALUE"), val |-> DefPublic]
  ELSE IF bytes[2] > MaxUnique
    THEN [ok |-> FALSE, err |-> TssError("TSS2_MU_RC_BAD_SIZE"), val |-> DefPublic]
  ELSE IF Len(bytes) < 2 + bytes[2]
    THEN [ok |-> FALSE, err |-> TssError("TSS2_MU_RC_INSUFFICIENT_BUFFER"), val |-> DefPublic]
  ELSE [ok |-> TRUE, err |-> NoErr,
        val |-> [type |-> bytes[1], unique |-> SubSeq(bytes, 3, 2 + bytes[2])]]

\* Public::try_from(TPMT_PUBLIC): validates the fixed-layout fields.
PublicFromTPMT(area) ==
  IF area.type \notin ValidTypes
    THEN [ok |-> FALSE, err |-> InvalidParam, val |-> DefPublic]
  ELSE IF area.usize > MaxUnique
    THEN [ok |-> FALSE, err |-> WrongParamSize, val |-> DefPublic]
  ELSE [ok |-> TRUE, err |-> NoErr,
        val |-> [type |-> area.type, unique |-> SubSeq(area.ubuf, 1, area.usize)]]

\* TPMT_PUBLIC::from(Public): the fixed layout, the array zero padded.
TPMTFromPublic(p) ==
  [type |-> p.type, usize |-> Len(p.unique),
   ubuf |-> p.unique \o Zeros(MaxUnique - Len(p.unique))]

\* ------------------------------------- the foreign encode/decode service
BE16(n) == <<n \div 256, n % 256>>

\* Tss2_MU_TPM2B_PUBLIC_Marshal(src, buffer, buffer_size, &offset): writes the
\* packed public area behind a two byte big-endian prefix holding its packed
\* length, and advances offset by what it wrote.  `buf` is the scratch after
\* the call.
MuMarshal(tss, capacity, f) ==
  LET area == tss.publicArea
      bad(rc) == [rc |-> rc, offset |-> 0, buf |-> Zeros(capacity)]
  IN IF f # "TSS2_RC_SUCCESS" THEN bad(f)
     ELSE IF area.type \notin ValidTypes \/ area.usize > MaxUnique
       THEN bad("TSS2_MU_RC_BAD_VALUE")
     ELSE LET packed == Packed(area.type, SubSeq(area.ubuf, 1, area.usize))
              framed == BE16(Len(packed)) \o packed
          IN IF Len(framed) > capacity THEN bad("TSS2_MU_RC_INSUFFICIENT_BUFFER")
             ELSE [rc |-> "TSS2_RC_SUCCESS", offset |-> Len(framed),
                   buf |-> framed \o Zeros(capacity - Len(framed))]

\* Tss2_MU_TPM2B_PUBLIC_Unmarshal(buffer, buffer_size, &offset, dest): reads the
\* prefix into dest.size and the packed public area into dest.publicArea.
MuUnmarshal(data, f) ==
  LET bad(rc) == [rc |-> rc, offset |-> 0, dest |-> DefTss]
  IN IF f # "TSS2_RC_SUCCESS" THEN bad(f)
     ELSE IF Len(data) < 2 THEN bad("TSS2_MU_RC_INSUFFICIENT_BUFFER")
     ELSE LET size == data[1] * 256 + data[2]
              body == SubSeq(data, 3, Len(data))
          IN IF size > Len(body) THEN bad("TSS2_MU_RC_INSUFFICIENT_BUFFER")
             ELSE IF Len(body) < 2 THEN bad("TSS2_MU_RC_INSUFFICIENT_BUFFER")
             ELSE IF body[1] \notin ValidTypes THEN bad("TSS2_MU_RC_BAD_VALUE")
             ELSE IF body[2] > MaxUnique THEN bad("TSS2_MU_RC_BAD_SIZE")
             ELSE IF Len(body) < 2 + body[2] THEN bad("TSS2_MU_RC_INSUFFICIENT_BUFFER")
             ELSE [rc |-> "TSS2_RC_SUCCESS", offset |-> 2 + 2 + body[2],
                   dest |-> [size |-> size,
                             publicArea |->
                               [type |-> body[1], usize |-> body[2],
                                ubuf |-> SubSeq(body, 3, 2 + body[2])
                                           \o Zeros(MaxUnique - body[2])]]]

\* ------------------------------------------------------- PublicBuffer
\* ensure_valid_buffer_size with the bound one too high, and with >= for >.
EnsureSizeOffByOne(buffer_size) ==
  IF buffer_size > MAX_SIZE + 1 THEN WrongParamSize ELSE NoErr
EnsureSizeRejectsMax(buffer_size) ==
  IF buffer_size >= MAX_SIZE THEN WrongParamSize ELSE NoErr
\* PublicBuffer::ensure_valid_buffer_size: NoErr is Ok(()).
ensure_valid_buffer_size(buffer_size) ==
  IF buffer_size > MAX_SIZE THEN WrongParamSize ELSE NoErr

\* bytes.to_vec(): a copy, byte by byte.
ToVec(bytes) == [i \in 1..Len(bytes) |-> bytes[i]]

\* A cast to a narrower type than u16.
AsNarrow(n) == n % 4
\* `native.0.len() as u16`: the low 16 bits.
AsU16(n) == n % U16

\* impl TryFrom<Vec<u8>> for PublicBuffer
TryFromVec(bytes) ==
  LET e == ensure_valid_buffer_size(Len(bytes))
  IN IF e # NoErr THEN [ok |-> FALSE, err |-> e, bytes |-> <<>>]
     ELSE [ok |-> TRUE, err |-> NoErr, bytes |-> bytes]

\* impl TryFrom<&[u8]> for PublicBuffer
TryFromSlice(bytes) ==
  LET e == ensure_valid_buffer_size(Len(bytes))
  IN IF e # NoErr THEN [ok |-> FALSE, err |-> e, bytes |-> <<>>]
     ELSE [ok |-> TRUE, err |-> NoErr, bytes |-> ToVec(bytes)]

\* impl TryFrom<TPM2B_PUBLIC> for PublicBuffer, decoding before the size check.
TryFromTPM2BDecodeFirst(tss, g) ==
  LET p == PublicFromTPMT(tss.publicArea)
      m == PublicMarshall(p.val, g)
      e == ensure_valid_buffer_size(tss.size)
  IN IF ~p.ok THEN [ok |-> FALSE, err |-> p.err, bytes |-> <<>>,
                     calls |-> <<"Public::try_from">>]
     ELSE IF ~m.ok THEN [ok |-> FALSE, err |-> m.err, bytes |-> <<>>,
                          calls |-> <<"Public::try_from", "Public::marshall">>]
     ELSE [ok |-> e = NoErr, err |-> e, bytes |-> IF e = NoErr THEN m.val ELSE <<>>,
           calls |-> <<"Public::try_from", "Public::marshall",
                       "ensure_valid_buffer_size">>]
\* impl TryFrom<TPM2B_PUBLIC> for PublicBuffer
TryFromTPM2B(tss, g) ==
  LET size == tss.size
      e == ensure_valid_buffer_size(size)
  IN IF e # NoErr
       THEN [ok |-> FALSE, err |-> e, bytes |-> <<>>,
             calls |-> <<"ensure_valid_buffer_size">>]
     ELSE LET p == PublicFromTPMT(tss.publicArea)
          IN IF ~p.ok
               THEN [ok |-> FALSE, err |-> p.err, bytes |-> <<>>,
                     calls |-> <<"ensure_valid_buffer_size", "Public::try_from">>]
             ELSE LET m == PublicMarshall(p.val, g)
                  IN [ok |-> m.ok, err |-> m.err, bytes |-> m.val,
                      calls |-> <<"ensure_valid_buffer_size", "Public::try_from",
                                  "Public::marshall">>]

\* impl TryFrom<PublicBuffer> for TPM2B_PUBLIC, publicArea left at its default.
TryIntoTPM2BNoArea(bytes, g) ==
  LET p == PublicUnmarshall(bytes, g)
  IN IF ~p.ok THEN [ok |-> FALSE, err |-> p.err, tss |-> DefTss]
     ELSE [ok |-> TRUE, err |-> NoErr,
           tss |-> [size |-> AsU16(Len(bytes)), publicArea |-> DefArea]]
\* impl TryFrom<PublicBuffer> for TPM2B_PUBLIC
TryIntoTPM2B(bytes, g) ==
  LET size == AsU16(Len(bytes))
      p == PublicUnmarshall(bytes, g)
  IN IF ~p.ok THEN [ok |-> FALSE, err |-> p.err, tss |-> DefTss]
     ELSE [ok |-> TRUE, err |-> NoErr,
           tss |-> [size |-> size, publicArea |-> TPMTFromPublic(p.val)]]

\* impl TryFrom<PublicBuffer> for Public
TryIntoPublicSkipsByte(bytes, g) == PublicUnmarshall(SubSeq(bytes, 2, Len(bytes)), g)
TryIntoPublic(bytes, g) == PublicUnmarshall(bytes, g)

\* impl TryFrom<Public> for PublicBuffer
TryFromPublic(p, g) ==
  LET m == PublicMarshall(p, g)
  IN [ok |-> m.ok, err |-> m.err, bytes |-> m.val]

\* Marshall::marshall returning the whole scratch, not truncated to offset.
MarshallNoTruncate(bytes, f, g) ==
  LET t == TryIntoTPM2B(bytes, g)
      m == MuMarshal(t.tss, BUFFER_SIZE, f)
      e == ensure_success(m.rc)
  IN IF ~t.ok THEN [ok |-> FALSE, err |-> t.err, out |-> <<>>, offset |-> 0,
                     scratch |-> Zeros(BUFFER_SIZE), rc |-> "none",
                     calls |-> <<"TPM2B_PUBLIC::try_from">>]
     ELSE [ok |-> e = NoErr, err |-> e, out |-> IF e = NoErr THEN m.buf ELSE <<>>,
           offset |-> m.offset, scratch |-> m.buf, rc |-> m.rc,
           calls |-> <<"TPM2B_PUBLIC::try_from", "Tss2_MU_TPM2B_PUBLIC_Marshal">>]
\* Marshall::marshall not looking at the return code of the service.
MarshallIgnoresRc(bytes, f, g) ==
  LET t == TryIntoTPM2B(bytes, g)
      m == MuMarshal(t.tss, BUFFER_SIZE, f)
  IN IF ~t.ok THEN [ok |-> FALSE, err |-> t.err, out |-> <<>>, offset |-> 0,
                     scratch |-> Zeros(BUFFER_SIZE), rc |-> "none",
                     calls |-> <<"TPM2B_PUBLIC::try_from">>]
     ELSE [ok |-> TRUE, err |-> NoErr, out |-> Take(m.buf, m.offset),
           offset |-> m.offset, scratch |-> m.buf, rc |-> m.rc,
           calls |-> <<"TPM2B_PUBLIC::try_from", "Tss2_MU_TPM2B_PUBLIC_Marshal">>]
\* impl Marshall for PublicBuffer: marshall(&self), on the bytes of the clone
\* of self.  `scratch` is the scratch Vec after the service call, `out` what
\* is returned, `offset` the cursor after the call.  The conversions between
\* usize and the service's size_t are between types of one width and succeed.
marshall(bytes, f, g) ==
  LET t == TryIntoTPM2B(bytes, g)
  IN IF ~t.ok
       THEN [ok |-> FALSE, err |-> t.err, out |-> <<>>, offset |-> 0,
             scratch |-> Zeros(BUFFER_SIZE), rc |-> "none",
             calls |-> <<"TPM2B_PUBLIC::try_from">>]
     ELSE LET m == MuMarshal(t.tss, BUFFER_SIZE, f)
              e == ensure_success(m.rc)
          IN IF e # NoErr
               THEN [ok |-> FALSE, err |-> e, out |-> <<>>, offset |-> m.offset,
                     scratch |-> m.buf, rc |-> m.rc,
                     calls |-> <<"TPM2B_PUBLIC::try_from",
                                 "Tss2_MU_TPM2B_PUBLIC_Marshal">>]
             ELSE [ok |-> TRUE, err |-> NoErr, out |-> Take(m.buf, m.offset),
                   offset |-> m.offset, scratch |-> m.buf, rc |-> m.rc,
                   calls |-> <<"TPM2B_PUBLIC::try_from",
                               "Tss2_MU_TPM2B_PUBLIC_Marshal">>]

\* impl UnMarshall for PublicBuffer: unmarshall(marshalled_data).  The length
\* converts to the service's size_t, a type of the same width.
unmarshall(data, f, g) ==
  LET m == MuUnmarshal(data, f)
      e == ensure_success(m.rc)
  IN IF e # NoErr
       THEN [ok |-> FALSE, err |-> e, bytes |-> <<>>, dest |-> m.dest, rc |-> m.rc,
             calls |-> <<"Tss2_MU_TPM2B_PUBLIC_Unmarshal">>]
     ELSE LET r == TryFromTPM2B(m.dest, g)
          IN [ok |-> r.ok, err |-> r.err, bytes |-> r.bytes, dest |-> m.dest,
              rc |-> m.rc,
              calls |-> <<"Tss2_MU_TPM2B_PUBLIC_Unmarshal">> \o r.calls]

\* ------------------------------------------------ storage and drop glue
FreeBlock == [live |-> FALSE, bytes |-> <<>>]
Holders == 1..MaxLive
Blocks == 1..MaxBlk
Min(S) == CHOOSE x \in S : \A y \in S : x <= y
FreeBlk(h) == Min({b \in Blocks : ~h[b].live})
FreeHolder(o) == Min({i \in Holders : o[i] = 0})

\* PublicBuffer::value(&self), for the instance whose storage is block b.
value(h, b) == h[b].bytes

\* PublicBuffer(bytes): the Vec's storage becomes block `blk`.
NewBuffer(h, bytes) ==
  LET n == FreeBlk(h)
  IN [heap |-> [h EXCEPT ![n] = [live |-> TRUE, bytes |-> bytes]], blk |-> n]

\* A clone that shares the storage of the original.
CloneShallow(h, b) == [heap |-> h, blk |-> b]
\* derive(Clone): a new Vec with a copy of the bytes.
Clone(h, b) == NewBuffer(h, ToVec(h[b].bytes))

\* Drop glue without the wipe: the storage is released as it is.
DropNoWipe(h, b) ==
  [heap |-> [h EXCEPT ![b] = FreeBlock],
   freed |-> [blk |-> b, wasLive |-> h[b].live, wipes |-> 0,
              residue |-> h[b].bytes]]
\* derive(ZeroizeOnDrop): drop of the PublicBuffer whose storage is block b
\* overwrites the storage with zeros, then releases it.  `freed` is the record
\* of the release: the block, whether it was still allocated, how many times
\* the drop glue overwrote it, and what the storage held when released.
DropBuffer(h, b) ==
  [heap |-> [h EXCEPT ![b] = FreeBlock],
   freed |-> [blk |-> b, wasLive |-> h[b].live, wipes |-> 1,
              residue |-> Zeros(Len(h[b].bytes))]]

\* ------------------------------------------------------------- inputs
\* Valid structured values handed to the conversions.
Publics ==
  {[type |-> 1, unique |-> Ramp(n, 1)] : n \in {0, 1, MaxUnique}}
    \cup {[type |-> 2, unique |-> Ramp(MaxUnique, 5)]}
PackedOf(p) == Packed(p.type, p.unique)
\* Byte sequences handed to the constructors from raw bytes: encodings of valid
\* values, one with a byte after it (MAX_SIZE bytes), a truncated one, another
\* content of MAX_SIZE bytes, and two contents of MAX_SIZE + 1 bytes.
RawInputs ==
  {PackedOf(p) : p \in Publics}
    \cup {Packed(2, Ramp(MaxUnique, 5)) \o <<9>>, <<1>>, Fill(MAX_SIZE, 7)}
    \cup {Fill(MAX_SIZE + 1, b) : b \in {0, 7}}
\* Public areas in the fixed layout: those of the valid values, one with
\* bytes left in the array beyond its length, one with an unknown selector,
\* one with a length beyond the array.
Areas ==
  {TPMTFromPublic(p) : p \in Publics}
    \cup {[type |-> 1, usize |-> 1, ubuf |-> Ramp(MaxUnique, 1)],
          [type |-> 0, usize |-> 0, ubuf |-> Zeros(MaxUnique)],
          [type |-> 1, usize |-> MaxUnique + 1, ubuf |-> Ramp(MaxUnique, 1)]}
\* Containers: every area under a declared size of MAX_SIZE; a valid and an
\* invalid area under declared sizes of 0 and of MAX_SIZE + 1.
TssInputs ==
  {[size |-> MAX_SIZE, publicArea |-> a] : a \in Areas}
    \cup {[size |-> n, publicArea |-> a] :
            n \in {0, MAX_SIZE + 1},
            a \in {TPMTFromPublic([type |-> 2, unique |-> Ramp(MaxUnique, 5)]),
                   [type |-> 0, usize |-> 0, ubuf |-> Zeros(MaxUnique)]}}
\* Wire bytes handed to unmarshall: too short for the prefix, a prefix without
\* its payload, framed valid values, a payload with an unknown selector, and a
\* well-formed payload behind a declared length of MAX_SIZE + 1.
WireInputs ==
  {<<>>, <<0>>, BE16(2), BE16(2) \o <<0, 0>>}
    \cup {BE16(Len(PackedOf(p))) \o PackedOf(p) : p \in Publics}
    \cup {BE16(MAX_SIZE + 1) \o <<1, 0>> \o Zeros(MAX_SIZE - 1)}

\* ------------------------------------------------------------- state
Snapshot(o, h) == [i \in Holders |-> IF o[i] = 0 THEN <<>> ELSE h[o[i]].bytes]
Held(o) == {i \in Holders : o[i] # 0}

NoLast ==
  [op |-> "init", slot |-> 0, ok |-> FALSE, err |-> NoErr,
   inBytes |-> <<>>, inTss |-> DefTss, inPublic |-> DefPublic,
   self |-> <<>>, before |-> [i \in Holders |-> <<>>], held |-> {},
   outBytes |-> <<>>, outPublic |-> DefPublic, outTss |-> DefTss,
   calls |-> <<>>, freed |-> <<>>, plain |-> <<>>,
   offset |-> 0, scratch |-> <<>>, viaMarshall |-> FALSE, src |-> <<>>,
   f |-> "none", g |-> "none", rc |-> "none", kin |-> {}]

\* A call begins: what the holders held before it.
Begin(name) ==
  [NoLast EXCEPT !.op = name, !.before = Snapshot(bufs, heap), !.held = Held(bufs),
                 !.kin = kin]

\* The clone pairs left when holder i gives up or rewrites its buffer.
Without(i) == {pr \in kin : i \notin pr}

InitState ==
  /\ bufs = [i \in Holders |-> 0]
  /\ heap = [b \in Blocks |-> FreeBlock]
  /\ kin = {}
  /\ last = NoLast

\* The foreign library may refuse calls.
Init == env = "faulty" /\ InitState
\* The foreign library answers by its contract.
InitNominal == env = "nominal" /\ InitState

\* PublicBuffer::try_from(bytes: Vec<u8>): on success the Vec, storage and all,
\* becomes the buffer; on failure the Vec is dropped as the Vec<u8> it is.
FromVec(bytes) ==
  /\ Held(bufs) # Holders
  /\ LET r == TryFromVec(bytes)
         n == NewBuffer(heap, r.bytes)
         i == FreeHolder(bufs)
     IN /\ heap' = IF r.ok THEN n.heap ELSE heap
        /\ bufs' = IF r.ok THEN [bufs EXCEPT ![i] = n.blk] ELSE bufs
        /\ last' = [Begin("from_vec") EXCEPT
                      !.slot = IF r.ok THEN i ELSE 0, !.ok = r.ok, !.err = r.err,
                      !.inBytes = bytes, !.outBytes = r.bytes,
                      !.calls = <<"ensure_valid_buffer_size">>,
                      !.plain = IF r.ok THEN <<>> ELSE <<bytes>>]
  /\ UNCHANGED <<env, kin>>

\* PublicBuffer::try_from(bytes: &[u8])
FromSlice(bytes) ==
  /\ Held(bufs) # Holders
  /\ LET r == TryFromSlice(bytes)
         n == NewBuffer(heap, r.bytes)
         i == FreeHolder(bufs)
     IN /\ heap' = IF r.ok THEN n.heap ELSE heap
        /\ bufs' = IF r.ok THEN [bufs EXCEPT ![i] = n.blk] ELSE bufs
        /\ last' = [Begin("from_slice") EXCEPT
                      !.slot = IF r.ok THEN i ELSE 0, !.ok = r.ok, !.err = r.err,
                      !.inBytes = bytes, !.outBytes = r.bytes,
                      !.calls = <<"ensure_valid_buffer_size">>]
  /\ UNCHANGED <<env, kin>>

\* PublicBuffer::try_from(tss: TPM2B_PUBLIC)
FromContainer(tss, g) ==
  /\ Held(bufs) # Holders
  /\ LET r == TryFromTPM2B(tss, g)
         n == NewBuffer(heap, r.bytes)
         i == FreeHolder(bufs)
     IN /\ heap' = IF r.ok THEN n.heap ELSE heap
        /\ bufs' = IF r.ok THEN [bufs EXCEPT ![i] = n.blk] ELSE bufs
        /\ last' = [Begin("from_container") EXCEPT
                      !.slot = IF r.ok THEN i ELSE 0, !.ok = r.ok, !.err = r.err,
                      !.inTss = tss, !.outBytes = r.bytes, !.calls = r.calls,
                      !.g = g]
  /\ UNCHANGED <<env, kin>>

\* PublicBuffer::try_from(public: Public)
FromPublic(p, g) ==
  /\ Held(bufs) # Holders
  /\ LET r == TryFromPublic(p, g)
         n == NewBuffer(heap, r.bytes)
         i == FreeHolder(bufs)
     IN /\ heap' = IF r.ok THEN n.heap ELSE heap
        /\ bufs' = IF r.ok THEN [bufs EXCEPT ![i] = n.blk] ELSE bufs
        /\ last' = [Begin("from_public") EXCEPT
                      !.slot = IF r.ok THEN i ELSE 0, !.ok = r.ok, !.err = r.err,
                      !.inPublic = p, !.outBytes = r.bytes,
                      !.calls = <<"Public::marshall">>, !.g = g]
  /\ UNCHANGED <<env, kin>>

\* TPM2B_PUBLIC::try_from(native: PublicBuffer): `native` is consumed and dropped
\* when the function returns, with Ok or with Err.
ToContainer(i, g) ==
  /\ bufs[i] # 0
  /\ LET r == TryIntoTPM2B(value(heap, bufs[i]), g)
         d == DropBuffer(heap, bufs[i])
     IN /\ heap' = d.heap
        /\ bufs' = [bufs EXCEPT ![i] = 0]
        /\ last' = [Begin("to_container") EXCEPT
                      !.slot = i, !.ok = r.ok, !.err = r.err,
                      !.self = value(heap, bufs[i]), !.outTss = r.tss,
                      !.calls = <<"Public::unmarshall">>, !.freed = <<d.freed>>,
                      !.g = g]
  /\ kin' = Without(i)
  /\ UNCHANGED env

\* Public::try_from(buf: PublicBuffer): `buf` is consumed and dropped.
ToPublic(i, g) ==
  /\ bufs[i] # 0
  /\ LET r == TryIntoPublic(value(heap, bufs[i]), g)
         d == DropBuffer(heap, bufs[i])
     IN /\ heap' = d.heap
        /\ bufs' = [bufs EXCEPT ![i] = 0]
        /\ last' = [Begin("to_public") EXCEPT
                      !.slot = i, !.ok = r.ok, !.err = r.err,
                      !.self = value(heap, bufs[i]), !.outPublic = r.val,
                      !.calls = <<"Public::unmarshall">>, !.freed = <<d.freed>>,
                      !.g = g]
  /\ kin' = Without(i)
  /\ UNCHANGED env

\* self.marshall(): the clone of self is moved into the conversion to
\* TPM2B_PUBLIC and dropped there; the scratch Vec is returned truncated, or
\* dropped as a Vec<u8> when the call fails.
Marshall(i, f, g) ==
  /\ bufs[i] # 0
  /\ LET c == Clone(heap, bufs[i])
         r == marshall(value(c.heap, c.blk), f, g)
         d == DropBuffer(c.heap, c.blk)
     IN /\ heap' = d.heap
        /\ bufs' = bufs
        /\ last' = [Begin("marshall") EXCEPT
                      !.slot = i, !.ok = r.ok, !.err = r.err,
                      !.self = value(heap, bufs[i]), !.outBytes = r.out,
                      !.offset = r.offset, !.scratch = r.scratch,
                      !.calls = r.calls, !.freed = <<d.freed>>,
                      !.f = f, !.g = g, !.rc = r.rc,
                      !.plain = IF r.ok THEN <<>> ELSE <<r.scratch>>]
  /\ UNCHANGED <<env, kin>>

\* PublicBuffer::unmarshall(marshalled_data), on given wire bytes or on the
\* bytes the marshall call just before returned.
Unmarshall(data, f, g) ==
  /\ Held(bufs) # Holders
  /\ LET r == unmarshall(data, f, g)
         n == NewBuffer(heap, r.bytes)
         i == FreeHolder(bufs)
         via == last.op = "marshall" /\ last.ok /\ data = last.outBytes
     IN /\ heap' = IF r.ok THEN n.heap ELSE heap
        /\ bufs' = IF r.ok THEN [bufs EXCEPT ![i] = n.blk] ELSE bufs
        /\ last' = [Begin("unmarshall") EXCEPT
                      !.slot = IF r.ok THEN i ELSE 0, !.ok = r.ok, !.err = r.err,
                      !.inBytes = data, !.inTss = r.dest, !.outBytes = r.bytes,
                      !.calls = r.calls, !.viaMarshall = via,
                      !.f = f, !.g = g, !.rc = r.rc,
                      !.src = IF via THEN last.self ELSE <<>>]
  /\ UNCHANGED <<env, kin>>

\* buf.clone() into another holder.
CloneBuf(i) ==
  /\ bufs[i] # 0
  /\ Held(bufs) # Holders
  /\ LET c == Clone(heap, bufs[i])
         j == FreeHolder(bufs)
     IN /\ heap' = c.heap
        /\ bufs' = [bufs EXCEPT ![j] = c.blk]
        /\ last' = [Begin("clone") EXCEPT
                      !.slot = j, !.ok = TRUE, !.self = value(heap, bufs[i]),
                      !.outBytes = value(c.heap, c.blk)]
  /\ kin' = kin \cup {{i, FreeHolder(bufs)}}
  /\ UNCHANGED env

\* The holder's scope ends.
DropBuf(i) ==
  /\ bufs[i] # 0
  /\ LET d == DropBuffer(heap, bufs[i])
     IN /\ heap' = d.heap
        /\ bufs' = [bufs EXCEPT ![i] = 0]
        /\ last' = [Begin("drop") EXCEPT
                      !.slot = i, !.ok = TRUE, !.self = value(heap, bufs[i]),
                      !.freed = <<d.freed>>]
  /\ kin' = Without(i)
  /\ UNCHANGED env

\* derive(Zeroize): buf.zeroize() by the holder; the Vec is wiped and cleared.
ZeroizeBuf(i) ==
  /\ bufs[i] # 0
  /\ heap' = [heap EXCEPT ![bufs[i]].bytes = <<>>]
  /\ bufs' = bufs
  /\ last' = [Begin("zeroize") EXCEPT
                !.slot = i, !.ok = TRUE, !.self = value(heap, bufs[i])]
  /\ kin' = Without(i)
  /\ UNCHANGED env

Next ==
  \/ \E bytes \in RawInputs : FromVec(bytes)
  \/ \E bytes \in RawInputs : FromSlice(bytes)
  \/ \E tss \in TssInputs, g \in Faults(env) : FromContainer(tss, g)
  \/ \E p \in Publics, g \in Faults(env) : FromPublic(p, g)
  \/ \E i \in Holders, g \in Faults(env) : ToContainer(i, g)
  \/ \E i \in Holders, g \in Faults(env) : ToPublic(i, g)
  \/ \E i \in Holders, fg \in FaultPairs(env) : Marshall(i, fg[2], fg[1])
  \/ \E fg \in FaultPairs(env) :
       \E data \in WireInputs \cup
                    (IF last.op = "marshall" /\ last.ok THEN {last.outBytes} ELSE {}) :
         Unmarshall(data, fg[1], fg[2])
  \/ \E i \in Holders : CloneBuf(i)
  \/ \E i \in Holders : DropBuf(i)
  \/ \E i \in Holders : ZeroizeBuf(i)

Spec == Init /\ [][Next]_vars
SpecNominal == InitNominal /\ [][Next]_vars

\* ------------------------------------------------------------- claims
Constructors == {"from_vec", "from_slice", "from_container", "from_public", "unmarshall"}
\* The buffers the holders own.
Live == {i \in Holders : bufs[i] # 0}
OK == "TSS2_RC_SUCCESS"

C2_RawConstruction ==
  last.op \in {"from_vec", "from_slice"} =>
    IF Len(last.inBytes) <= MAX_SIZE
      THEN /\ last.ok /\ last.err = NoErr
           /\ last.slot \in Live /\ last.slot \notin last.held
           /\ value(heap, bufs[last.slot]) = last.inBytes
      ELSE /\ ~last.ok /\ last.err = WrongParamSize
           /\ last.slot = 0
           /\ Live = last.held /\ Snapshot(bufs, heap) = last.before
C2_Witness ==
  /\ last.op = "from_slice" /\ ~last.ok
  /\ Len(last.inBytes) = MAX_SIZE + 1
  /\ \E i \in Live : /\ Len(value(heap, bufs[i])) = MAX_SIZE
                      /\ ~AllZero(value(heap, bufs[i]))

\* C3: a TPM2B_PUBLIC whose declared size exceeds MAX_SIZE is refused with
\* WrongParamSize before Public::try_from or Public::marshall is called.
C3_SizeCheckFirst ==
  /\ (last.op = "from_container" /\ last.inTss.size > MAX_SIZE) =>
       /\ ~last.ok /\ last.err = WrongParamSize /\ last.slot = 0
       /\ last.calls = <<"ensure_valid_buffer_size">>
  /\ (last.op = "unmarshall" /\ last.rc = OK /\ last.inTss.size > MAX_SIZE) =>
       /\ ~last.ok /\ last.err = WrongParamSize /\ last.slot = 0
       /\ last.calls = <<"Tss2_MU_TPM2B_PUBLIC_Unmarshal", "ensure_valid_buffer_size">>
C3_Witness ==
  /\ last.op = "from_container" /\ last.inTss.size = MAX_SIZE + 1
  /\ last.inTss.publicArea.type \in ValidTypes
  /\ last.inTss.publicArea.usize = MaxUnique
  /\ last.g = OK /\ ~last.ok

FromValidPublic(bytes) == \E p \in Publics : TryFromPublic(p, OK).bytes = bytes

\* C5: with the foreign library answering by its contract, marshall of a buffer
\* made from a valid Public succeeds, and unmarshall of the bytes it returned
\* succeeds with a buffer of the same bytes.
C5_WireRoundTrip ==
  /\ (last.op = "marshall" /\ FromValidPublic(last.self)) => last.ok
  /\ (last.op = "unmarshall" /\ last.viaMarshall /\ FromValidPublic(last.src)) =>
       /\ last.ok
       /\ last.outBytes = last.src
       /\ last.slot \in Live /\ value(heap, bufs[last.slot]) = last.src
C5_Witness ==
  /\ last.op = "unmarshall" /\ last.viaMarshall /\ last.ok
  /\ last.src = <<2, MaxUnique>> \o Ramp(MaxUnique, 5)
  /\ last.outBytes = last.src

\* C6: with the foreign library answering by its contract, making a buffer
\* from a valid Public succeeds and stores its packed encoding, and converting
\* such a buffer to a Public succeeds with the value it was made from.
C6_StructuredRoundTrip ==
  /\ last.op = "from_public" =>
       /\ last.ok /\ last.slot \in Live
       /\ last.outBytes = <<last.inPublic.type, Len(last.inPublic.unique)>>
                             \o last.inPublic.unique
       /\ value(heap, bufs[last.slot]) = last.outBytes
  /\ last.op = "to_public" =>
       \A p \in Publics :
         TryFromPublic(p, OK).bytes = last.self => (last.ok /\ last.outPublic = p)
C6_Witness ==
  /\ last.op = "to_public" /\ last.ok
  /\ last.outPublic = [type |-> 2, unique |-> Ramp(MaxUnique, 5)]
  /\ FromValidPublic(last.self)

\* C7: what marshall returns is the first `offset` bytes of the scratch, offset
\* being the cursor the service left: the two byte prefix and the packed public
\* area, fewer bytes than the scratch holds; and the framing of any buffer held
\* fits the scratch.
C7_ExactLength ==
  /\ (last.op = "marshall" /\ last.ok) =>
       /\ Len(last.scratch) = BUFFER_SIZE
       /\ last.outBytes = SubSeq(last.scratch, 1, last.offset)
       /\ Len(last.outBytes) = last.offset
       /\ Len(last.outBytes) = 2 + last.outBytes[1] * 256 + last.outBytes[2]
       /\ FromValidPublic(last.self) => Len(last.outBytes) = 2 + Len(last.self)
       /\ Len(last.outBytes) < BUFFER_SIZE
  /\ \A i \in Live : 2 + Len(value(heap, bufs[i])) <= BUFFER_SIZE
C7_Witness ==
  /\ last.op = "marshall" /\ last.ok
  /\ FromValidPublic(last.self)
  /\ Len(last.outBytes) = 4 + MaxUnique
  /\ Len(last.scratch) > Len(last.outBytes)

\* Blocks allocated, and the blocks the holders own.
LiveBlocks == {b \in Blocks : heap[b].live}
OwnedBlocks == {bufs[i] : i \in Live}

C9_ServiceFailures ==
  /\ last.op = "marshall" =>
       /\ last.calls[1] = "TPM2B_PUBLIC::try_from"
       /\ ~PublicUnmarshall(last.self, last.g).ok =>
            /\ ~last.ok /\ last.err = PublicUnmarshall(last.self, last.g).err
            /\ last.calls = <<"TPM2B_PUBLIC::try_from">>
            /\ last.rc = "none" /\ last.outBytes = <<>>
       /\ PublicUnmarshall(last.self, last.g).ok =>
            last.calls = <<"TPM2B_PUBLIC::try_from", "Tss2_MU_TPM2B_PUBLIC_Marshal">>
       /\ last.f # OK => last.rc \in {"none", last.f}
       /\ last.rc \notin {"none", OK} =>
            /\ ~last.ok /\ last.err = [kind |-> "TssError", rc |-> last.rc]
            /\ last.outBytes = <<>>
  /\ last.op = "unmarshall" =>
       /\ last.calls[1] = "Tss2_MU_TPM2B_PUBLIC_Unmarshal"
       /\ last.f # OK => last.rc = last.f
       /\ Len(last.inBytes) < 2 => last.rc # OK
       /\ last.rc # OK =>
            /\ ~last.ok /\ last.err = [kind |-> "TssError", rc |-> last.rc]
            /\ last.calls = <<"Tss2_MU_TPM2B_PUBLIC_Unmarshal">>
            /\ last.slot = 0 /\ last.outBytes = <<>>
            /\ Live = last.held /\ Snapshot(bufs, heap) = last.before
C9_Witness ==
  /\ last.op = "marshall" /\ ~last.ok
  /\ FromValidPublic(last.self)
  /\ last.rc = "TSS2_BASE_RC_GENERAL_FAILURE"
  /\ last.err.rc = last.rc

\* C10: marshall leaves the buffer it is called on, and every other buffer, as
\* it was, whether it returns Ok or Err; a clone has its own storage with the
\* same bytes; the end of one buffer leaves every other buffer, its clones
\* included, as it was.
C10_NoMutation ==
  /\ last.op = "marshall" =>
       /\ Live = last.held
       /\ Snapshot(bufs, heap) = last.before
       /\ value(heap, bufs[last.slot]) = last.self
       /\ heap[bufs[last.slot]].live
  /\ last.op = "clone" =>
       /\ Live = last.held \cup {last.slot}
       /\ value(heap, bufs[last.slot]) = last.self
       /\ \A j \in last.held :
            /\ bufs[j] # bufs[last.slot]
            /\ value(heap, bufs[j]) = last.before[j]
  /\ last.op \in {"drop", "to_public", "to_container"} =>
       \A j \in last.held \ {last.slot} :
         /\ j \in Live /\ heap[bufs[j]].live
         /\ value(heap, bufs[j]) = last.before[j]
C10_Witness ==
  /\ last.op = "drop"
  /\ ~AllZero(last.self)
  /\ \E j \in Live :
       /\ {j, last.slot} \in last.kin
       /\ value(heap, bufs[j]) = last.self /\ last.before[j] = last.self

====
